---- MODULE Spec2Model ----
(***************************************************************************)
(* log_safe: a listener process drains a shared multiprocessing queue of  *)
(* log records and hands them to the logging handlers it owns; producers  *)
(* (root process and workers) forward their records through QueueHandlers.*)
(*                                                                         *)
(* Source: src/log_safe/log_safe.py                                        *)
(*                                                                         *)
(* Six groups  of behaviours are described over one state:                 *)
(*   Spec       the listener service: queue, run loop, watchdog, stop      *)
(*   SpecTimed  the same service with a unit clock (watchdog timing)       *)
(*   SpecFront  initialize_safe_logging and worker_process_initializer     *)
(*   SpecStart  initialize_safe_logging and the start of the listener      *)
(*   SpecSpawn  SafeProcess, Pool, ProcessPoolExecutor and their workers   *)
(*   SpecRoute  logger.handle(record) across the logger hierarchy          *)
(***************************************************************************)
EXTENDS Integers, Sequences, FiniteSets, TLC

(* ------------------------------ bounds -------------------------------- *)
MaxRecords == 3
MaxStopCalls == 2
MaxTime == 120
MaxTimedRecords == 1
MaxTimedTime == 135
NumThreads == 2
MaxInitCalls == 2
MaxWorkerInits == 2
MaxUserArgs == 1
MaxDepth == 3

(* ------------------------ program constants --------------------------- *)
\* time.sleep(60) in ListenerProcess._watchdog
WatchdogSleep == 60
\* self.log_config.get('idle_timeout', 600 * 60)
DefaultIdleTimeout == 36000

\* the sentinel put by stop() / stop_listener(); records are 1..MaxRecords
None == 0

\* handlers the listener configuration binds to the root logger, in
\* attachment order (DEFAULT_LISTENER_CONFIG binds one, 'file'; two are
\* taken here so that one sink can fail while another is healthy)
Handlers == <<"h1", "h2">>
HandlerSet == {Handlers[i] : i \in 1..Len(Handlers)}

\* what one handler does with one record:
\*   "ok"      the record is written
\*   "handled" the write fails and the handler reports it itself
\*             (Handler.handleError), nothing is raised
\*   "raise"   an exception leaves Handler.handle
SinkOutcomes == {"ok", "handled", "raise"}

VARIABLES
    now,            \* time.time()
    queue,          \* SafeLogger.log_queue: the shared Manager queue
    nextId,         \* next record a producer will emit
    log_config,     \* ListenerProcess.log_config
    lpc,            \* position of the listener process
    cur,            \* record held by run() between get and handle
    shutdown_flag,  \* ListenerProcess.shutdown_flag
    last_log_time,  \* ListenerProcess.last_log_time
    wpc,            \* position of the watchdog thread
    wakeAt,         \* when the watchdog's time.sleep(60) returns
    mpc,            \* position of the root process in stop_listener
    stopCalls,      \* stop_listener calls begun
    stopsReturned,  \* stop_listener calls returned
    handleCalls,    \* per record: times passed to logger.handle
    lastOut,        \* sink outcomes of the latest logger.handle call
    lastWritten,    \* sinks the latest logger.handle call wrote to
    errorsPrinted,  \* tracebacks printed by run()'s except Exception
    sentinelsConsumed, \* sentinels dequeued by run()
    loopExits,      \* times run()'s loop has been left
    stopRequested,  \* a stop has been requested (either path)
    preStop,        \* records enqueued before the first stop request
    lastConsumed    \* time the latest record was dequeued

svars == <<now, queue, nextId, log_config, lpc, cur, shutdown_flag,
           last_log_time, wpc, wakeAt, mpc, stopCalls, stopsReturned,
           handleCalls, lastOut, lastWritten, errorsPrinted,
           sentinelsConsumed, loopExits, stopRequested, preStop,
           lastConsumed>>

VARIABLES
    isInitialized,      \* per process: module global isInitialized
    global_log_queue,   \* per process: module global _global_log_queue
    worker_log_config,  \* per process: module global _worker_log_config
    rootHandlers,       \* per process: queues of the QueueHandlers attached
                        \* to the root logger, in attachment order
    dictCfg,            \* per process: configuration dictConfig last applied
    ipc,                \* per process and thread: position in
                        \* initialize_safe_logging
    iq,                 \* per process and thread: safe_logger.log_queue
    initCalls,          \* per process: initialize_safe_logging calls begun
    initRaised,         \* per process: calls that ended with an exception
    queuesCreated,      \* Manager queues created so far
    listenersStarted,   \* listener processes started so far
    atexitRegistered,   \* stop_listener callbacks registered with atexit
    wiCalls,            \* per process: worker_process_initializer calls
    wiArg,              \* per process: queue argument of the latest call
    wiResult,           \* per process: outcome of the latest call
    configured,         \* per process: a worker-side setup has completed
    lastEmit            \* per process: records put by the latest log call

fvars == <<isInitialized, global_log_queue, worker_log_config, rootHandlers,
           dictCfg, ipc, iq, initCalls, initRaised, queuesCreated,
           listenersStarted, atexitRegistered, wiCalls, wiArg, wiResult,
           configured, lastEmit>>

VARIABLES
    pst,        \* per worker: "none" no spawn request yet, "rejected" the
                \* spawning call raised, "created" the process object
                \* exists, "returned" / "raised" how its entry call ended
    pkind,      \* per worker: spawning mechanism used
    ptarget,    \* per worker: callable the new process calls first
                \* (Process._target, or the pool's initializer)
    pargs,      \* per worker: its positional arguments (_args / initargs)
    pkwargs,    \* per worker: Process._kwargs is not empty
    uhas,       \* per worker: the caller supplied a callable of its own
    uargs,      \* per worker: arguments the caller supplied for it
    pinit,      \* per worker: the parent's queue and worker config were
                \* set when the spawning call was made
    ucalls,     \* per worker: invocations of the caller's callable
    ugot,       \* per worker: arguments of its latest invocation
    usetup      \* per worker: worker_process_initializer had completed
                \* with the parent's queue when the callable started

pvars == <<pst, pkind, ptarget, pargs, pkwargs, uhas, uargs, pinit, ucalls,
           ugot, usetup>>

VARIABLES
    rname,      \* record.name of the record handed to logger.handle
    rcfg,       \* 'loggers' entries of the listener configuration
    rout,       \* what each sink does with the record
    rtried,     \* sinks whose handle() was called, in call order
    rraised,    \* an exception left logger.handle
    rpc         \* "idle" / "done"

rvars == <<rname, rcfg, rout, rtried, rraised, rpc>>

vars == <<svars, fvars, pvars, rvars>>

Records == 1..MaxRecords
Enqueued == 1..(nextId - 1)
InQueue == {queue[i] : i \in 1..Len(queue)}
ListenerGone == lpc \in {"exited", "failed"}

(* ------------------------- logging.Logger.handle ---------------------- *)
\* Logger.callHandlers: the handlers are called in order; an exception
\* leaving one handler ends the call, the later handlers are not reached.
RECURSIVE callHandlers(_, _)
callHandlers(hs, out) ==
    IF hs = <<>> THEN [written |-> {}, raised |-> FALSE]
    ELSE IF out[Head(hs)] = "raise" THEN [written |-> {}, raised |-> TRUE]
    ELSE LET rest == callHandlers(Tail(hs), out)
         IN  [written |-> (IF out[Head(hs)] = "ok" THEN {Head(hs)} ELSE {})
                          \cup rest.written,
              raised |-> rest.raised]

(* --------------------------- ListenerProcess -------------------------- *)
\* first stop request: remember what had been enqueued by then
NoteStop ==
    /\ stopRequested' = TRUE
    /\ preStop' = IF stopRequested THEN preStop ELSE Enqueued

ListenerProcess_init_WatchdogFirst ==
    /\ lpc = "init"
    /\ shutdown_flag' = FALSE
    /\ last_log_time' = now
    /\ lastConsumed' = now
    /\ wpc' = "while"
    /\ lpc' = IF log_config.valid THEN "while" ELSE "failed"
    /\ UNCHANGED <<now, queue, nextId, log_config, cur, wakeAt, mpc,
                   stopCalls, stopsReturned, handleCalls, lastOut,
                   lastWritten, errorsPrinted, sentinelsConsumed, loopExits,
                   stopRequested, preStop>>
    /\ UNCHANGED <<fvars, pvars, rvars>>

\* ListenerProcess.__init__ (run in the listener process by _run_listener)
ListenerProcess_init ==
    /\ lpc = "init"
    /\ shutdown_flag' = FALSE
    /\ last_log_time' = now
    /\ lastConsumed' = now
    /\ IF log_config.valid
       THEN /\ lpc' = "while"       \* listener.run()
            /\ wpc' = "while"       \* start_watchdog()
       ELSE /\ lpc' = "failed"      \* dictConfig raised: the process dies
            /\ wpc' = wpc
    /\ UNCHANGED <<now, queue, nextId, log_config, cur, wakeAt, mpc,
                   stopCalls, stopsReturned, handleCalls, lastOut,
                   lastWritten, errorsPrinted, sentinelsConsumed, loopExits,
                   stopRequested, preStop>>
    /\ UNCHANGED <<fvars, pvars, rvars>>

\* run(): while not self.shutdown_flag.is_set()
run_while ==
    /\ lpc = "while"
    /\ IF shutdown_flag
       THEN lpc' = "exited" /\ loopExits' = loopExits + 1
       ELSE lpc' = "get" /\ loopExits' = loopExits
    /\ UNCHANGED <<now, queue, nextId, log_config, cur, shutdown_flag,
                   last_log_time, wpc, wakeAt, mpc, stopCalls, stopsReturned,
                   handleCalls, lastOut, lastWritten, errorsPrinted,
                   sentinelsConsumed, stopRequested, preStop, lastConsumed>>
    /\ UNCHANGED <<fvars, pvars, rvars>>

\* run(): record = self.queue.get(timeout=1); if record is None: break
run_get_NoBreak ==
    /\ lpc = "get"
    /\ queue # <<>>
    /\ queue' = Tail(queue)
    /\ IF Head(queue) = None
       THEN /\ lpc' = "while"
            /\ sentinelsConsumed' = sentinelsConsumed + 1
            /\ UNCHANGED <<cur, lastConsumed, loopExits>>
       ELSE /\ lpc' = "handle"
            /\ cur' = Head(queue)
            /\ lastConsumed' = now
            /\ UNCHANGED <<sentinelsConsumed, loopExits>>
    /\ UNCHANGED <<now, nextId, log_config, shutdown_flag, last_log_time,
                   wpc, wakeAt, mpc, stopCalls, stopsReturned, handleCalls,
                   lastOut, lastWritten, errorsPrinted, stopRequested,
                   preStop>>
    /\ UNCHANGED <<fvars, pvars, rvars>>

run_get_TakesLast ==
    /\ lpc = "get"
    /\ queue # <<>>
    /\ queue' = SubSeq(queue, 1, Len(queue) - 1)
    /\ IF queue[Len(queue)] = None
       THEN /\ lpc' = "exited"
            /\ sentinelsConsumed' = sentinelsConsumed + 1
            /\ loopExits' = loopExits + 1
            /\ UNCHANGED <<cur, lastConsumed>>
       ELSE /\ lpc' = "handle"
            /\ cur' = queue[Len(queue)]
            /\ lastConsumed' = now
            /\ UNCHANGED <<sentinelsConsumed, loopExits>>
    /\ UNCHANGED <<now, nextId, log_config, shutdown_flag, last_log_time,
                   wpc, wakeAt, mpc, stopCalls, stopsReturned, handleCalls,
                   lastOut, lastWritten, errorsPrinted, stopRequested,
                   preStop>>
    /\ UNCHANGED <<fvars, pvars, rvars>>

run_get ==
    /\ lpc = "get"
    /\ queue # <<>>
    /\ queue' = Tail(queue)
    /\ IF Head(queue) = None
       THEN /\ lpc' = "exited"
            /\ sentinelsConsumed' = sentinelsConsumed + 1
            /\ loopExits' = loopExits + 1
            /\ UNCHANGED <<cur, lastConsumed>>
       ELSE /\ lpc' = "handle"
            /\ cur' = Head(queue)
            /\ lastConsumed' = now
            /\ UNCHANGED <<sentinelsConsumed, loopExits>>
    /\ UNCHANGED <<now, nextId, log_config, shutdown_flag, last_log_time,
                   wpc, wakeAt, mpc, stopCalls, stopsReturned, handleCalls,
                   lastOut, lastWritten, errorsPrinted, stopRequested,
                   preStop>>
    /\ UNCHANGED <<fvars, pvars, rvars>>

\* run(): except queue.Empty: continue  (the get timed out on an empty queue)
run_empty ==
    /\ lpc = "get"
    /\ queue = <<>>
    /\ lpc' = "while"
    /\ UNCHANGED <<now, queue, nextId, log_config, cur, shutdown_flag,
                   last_log_time, wpc, wakeAt, mpc, stopCalls, stopsReturned,
                   handleCalls, lastOut, lastWritten, errorsPrinted,
                   sentinelsConsumed, loopExits, stopRequested, preStop,
                   lastConsumed>>
    /\ UNCHANGED <<fvars, pvars, rvars>>

\* run(): logger.handle(record); self.last_log_time = time.time()
\*        except Exception: print the traceback, go round the loop again
run_handle_Propagates ==
    /\ lpc = "handle"
    /\ \E out \in [HandlerSet -> SinkOutcomes] :
         LET res == callHandlers(Handlers, out)
         IN  /\ handleCalls' = [handleCalls EXCEPT ![cur] = @ + 1]
             /\ lastOut' = out
             /\ lastWritten' = res.written
             /\ IF res.raised
                THEN /\ errorsPrinted' = errorsPrinted + 1
                     /\ last_log_time' = last_log_time
                     /\ lpc' = "failed"
                ELSE /\ errorsPrinted' = errorsPrinted
                     /\ last_log_time' = now
                     /\ lpc' = "while"
    /\ cur' = None
    /\ UNCHANGED <<now, queue, nextId, log_config, shutdown_flag, wpc,
                   wakeAt, mpc, stopCalls, stopsReturned, sentinelsConsumed,
                   loopExits, stopRequested, preStop, lastConsumed>>
    /\ UNCHANGED <<fvars, pvars, rvars>>

run_handle ==
    /\ lpc = "handle"
    /\ \E out \in [HandlerSet -> SinkOutcomes] :
         LET res == callHandlers(Handlers, out)
         IN  /\ handleCalls' = [handleCalls EXCEPT ![cur] = @ + 1]
             /\ lastOut' = out
             /\ lastWritten' = res.written
             /\ IF res.raised
                THEN /\ errorsPrinted' = errorsPrinted + 1
                     /\ last_log_time' = last_log_time
                ELSE /\ errorsPrinted' = errorsPrinted
                     /\ last_log_time' = now
    /\ lpc' = "while"
    /\ cur' = None
    /\ UNCHANGED <<now, queue, nextId, log_config, shutdown_flag, wpc,
                   wakeAt, mpc, stopCalls, stopsReturned, sentinelsConsumed,
                   loopExits, stopRequested, preStop, lastConsumed>>
    /\ UNCHANGED <<fvars, pvars, rvars>>

\* the watchdog is a daemon thread of the listener process
WatchdogAlive == ~ListenerGone

\* _watchdog(): while not self.shutdown_flag.is_set(): time.sleep(60)
watchdog_while ==
    /\ WatchdogAlive
    /\ wpc = "while"
    /\ IF shutdown_flag
       THEN wpc' = "done" /\ wakeAt' = wakeAt
       ELSE wpc' = "sleep" /\ wakeAt' = now + WatchdogSleep
    /\ UNCHANGED <<now, queue, nextId, log_config, lpc, cur, shutdown_flag,
                   last_log_time, mpc, stopCalls, stopsReturned, handleCalls,
                   lastOut, lastWritten, errorsPrinted, sentinelsConsumed,
                   loopExits, stopRequested, preStop, lastConsumed>>
    /\ UNCHANGED <<fvars, pvars, rvars>>

\* _watchdog(): if time.time() - self.last_log_time > idle_timeout:
\*                  self.stop()  -- first half: self.shutdown_flag.set()
watchdog_wake_LateIdle ==
    /\ WatchdogAlive
    /\ wpc = "sleep"
    /\ now >= wakeAt
    /\ IF now - last_log_time > log_config.idle_timeout + WatchdogSleep
       THEN /\ shutdown_flag' = TRUE
            /\ wpc' = "put"
            /\ NoteStop
       ELSE /\ wpc' = "while"
            /\ UNCHANGED <<shutdown_flag, stopRequested, preStop>>
    /\ UNCHANGED <<now, queue, nextId, log_config, lpc, cur, last_log_time,
                   wakeAt, mpc, stopCalls, stopsReturned, handleCalls,
                   lastOut, lastWritten, errorsPrinted, sentinelsConsumed,
                   loopExits, lastConsumed>>
    /\ UNCHANGED <<fvars, pvars, rvars>>

watchdog_wake_NoFlag ==
    /\ WatchdogAlive
    /\ wpc = "sleep"
    /\ now >= wakeAt
    /\ IF now - last_log_time > log_config.idle_timeout
       THEN /\ shutdown_flag' = shutdown_flag
            /\ wpc' = "put"
            /\ NoteStop
       ELSE /\ wpc' = "while"
            /\ UNCHANGED <<shutdown_flag, stopRequested, preStop>>
    /\ UNCHANGED <<now, queue, nextId, log_config, lpc, cur, last_log_time,
                   wakeAt, mpc, stopCalls, stopsReturned, handleCalls,
                   lastOut, lastWritten, errorsPrinted, sentinelsConsumed,
                   loopExits, lastConsumed>>
    /\ UNCHANGED <<fvars, pvars, rvars>>

watchdog_wake ==
    /\ WatchdogAlive
    /\ wpc = "sleep"
    /\ now >= wakeAt
    /\ IF now - last_log_time > log_config.idle_timeout
       THEN /\ shutdown_flag' = TRUE
            /\ wpc' = "put"
            /\ NoteStop
       ELSE /\ wpc' = "while"
            /\ UNCHANGED <<shutdown_flag, stopRequested, preStop>>
    /\ UNCHANGED <<now, queue, nextId, log_config, lpc, cur, last_log_time,
                   wakeAt, mpc, stopCalls, stopsReturned, handleCalls,
                   lastOut, lastWritten, errorsPrinted, sentinelsConsumed,
                   loopExits, lastConsumed>>
    /\ UNCHANGED <<fvars, pvars, rvars>>

\* stop(), second half: self.queue.put_nowait(None); then break
stop_put ==
    /\ WatchdogAlive
    /\ wpc = "put"
    /\ queue' = Append(queue, None)
    /\ wpc' = "done"
    /\ UNCHANGED <<now, nextId, log_config, lpc, cur, shutdown_flag,
                   last_log_time, wakeAt, mpc, stopCalls, stopsReturned,
                   handleCalls, lastOut, lastWritten, errorsPrinted,
                   sentinelsConsumed, loopExits, stopRequested, preStop,
                   lastConsumed>>
    /\ UNCHANGED <<fvars, pvars, rvars>>

(* ----------------------------- SafeLogger ----------------------------- *)
\* stop_listener(): self.log_queue.put_nowait(None)
stop_listener_put ==
    /\ mpc = "idle"
    /\ stopCalls < MaxStopCalls
    /\ stopCalls' = stopCalls + 1
    /\ queue' = Append(queue, None)
    /\ mpc' = "join"
    /\ NoteStop
    /\ UNCHANGED <<now, nextId, log_config, lpc, cur, shutdown_flag,
                   last_log_time, wpc, wakeAt, stopsReturned, handleCalls,
                   lastOut, lastWritten, errorsPrinted, sentinelsConsumed,
                   loopExits, lastConsumed>>
    /\ UNCHANGED <<fvars, pvars, rvars>>

\* stop_listener(): self.listener_process.join()
stop_listener_join_NoWait ==
    /\ mpc = "join"
    /\ mpc' = "idle"
    /\ stopsReturned' = stopsReturned + 1
    /\ UNCHANGED <<now, queue, nextId, log_config, lpc, cur, shutdown_flag,
                   last_log_time, wpc, wakeAt, stopCalls, handleCalls,
                   lastOut, lastWritten, errorsPrinted, sentinelsConsumed,
                   loopExits, stopRequested, preStop, lastConsumed>>
    /\ UNCHANGED <<fvars, pvars, rvars>>

stop_listener_join ==
    /\ mpc = "join"
    /\ ListenerGone
    /\ mpc' = "idle"
    /\ stopsReturned' = stopsReturned + 1
    /\ UNCHANGED <<now, queue, nextId, log_config, lpc, cur, shutdown_flag,
                   last_log_time, wpc, wakeAt, stopCalls, handleCalls,
                   lastOut, lastWritten, errorsPrinted, sentinelsConsumed,
                   loopExits, stopRequested, preStop, lastConsumed>>
    /\ UNCHANGED <<fvars, pvars, rvars>>

(* ----------------------------- producers ------------------------------ *)
\* QueueHandler(self.log_queue).emit in some producer: put_nowait(record)
emit(limit) ==
    /\ nextId <= limit
    /\ queue' = Append(queue, nextId)
    /\ nextId' = nextId + 1
    /\ UNCHANGED <<now, log_config, lpc, cur, shutdown_flag, last_log_time,
                   wpc, wakeAt, mpc, stopCalls, stopsReturned, handleCalls,
                   lastOut, lastWritten, errorsPrinted, sentinelsConsumed,
                   loopExits, stopRequested, preStop, lastConsumed>>
    /\ UNCHANGED <<fvars, pvars, rvars>>

(* -------------------------------- time -------------------------------- *)
\* Computation steps take no time: time passes only while the listener is
\* blocked in queue.get on an empty queue (or gone) and the watchdog is
\* asleep (or gone); the sleep is never overslept.
ListenerWaiting == ListenerGone \/ (lpc = "get" /\ queue = <<>>)
WatchdogWaiting ==
    \/ ~WatchdogAlive
    \/ wpc \in {"off", "done"}
    \/ wpc = "sleep" /\ now < wakeAt

Advance(d, limit) ==
    /\ ListenerWaiting
    /\ WatchdogWaiting
    /\ now + d <= limit
    /\ (WatchdogAlive /\ wpc = "sleep") => now + d <= wakeAt
    /\ now' = now + d
    /\ UNCHANGED <<queue, nextId, log_config, lpc, cur, shutdown_flag,
                   last_log_time, wpc, wakeAt, mpc, stopCalls, stopsReturned,
                   handleCalls, lastOut, lastWritten, errorsPrinted,
                   sentinelsConsumed, loopExits, stopRequested, preStop,
                   lastConsumed>>
    /\ UNCHANGED <<fvars, pvars, rvars>>

(* ------------------- processes and their logging state ---------------- *)
\* multiprocessing.current_process().name
Procs == {"MainProcess", "Worker"}
Workers == Procs \ {"MainProcess"}
Threads == 1..NumThreads

\* worker logging configurations handed to dictConfig:
\*   "default"  valid, has a 'root' entry (DEFAULT_WORKER_CONFIG)
\*   "noroot"   valid, has no 'root' entry
\*   "invalid"  rejected by dictConfig
\* ("unset" stands for None, which dictConfig rejects as well)
WorkerConfigs == {"default", "noroot", "invalid"}
ConfigValid(c) == c \notin {"invalid", "unset"}
ConfigHasRoot(c) == c = "default"

\* logging.config.dictConfig(config), seen from the root logger's forwarding
\* handlers: an invalid configuration raises and leaves them alone; a valid
\* one with a 'root' entry replaces the root logger's handlers by the
\* configured ones; a valid one without it does not touch them.
dictConfig(config, handlers) ==
    IF ~ConfigValid(config) THEN [raised |-> TRUE, handlers |-> handlers]
    ELSE IF ConfigHasRoot(config) THEN [raised |-> FALSE, handlers |-> <<>>]
    ELSE [raised |-> FALSE, handlers |-> handlers]

ListenerConfigs(timeouts) ==
    [valid : BOOLEAN, idle_timeout : timeouts]

(* ----------------------- initialize_safe_logging ---------------------- *)
\* if multiprocessing.current_process().name == 'MainProcess'
\*    and not isInitialized:          (the flag is read here ...
isl_check(p, t) ==
    /\ ipc[p][t] = "idle"
    /\ initCalls[p] < MaxInitCalls
    /\ initCalls' = [initCalls EXCEPT ![p] = @ + 1]
    /\ IF p = "MainProcess" /\ ~isInitialized[p]
       THEN ipc' = [ipc EXCEPT ![p][t] = "set"]
       ELSE ipc' = ipc
    /\ UNCHANGED <<isInitialized, global_log_queue, worker_log_config,
                   rootHandlers, dictCfg, iq, initRaised, queuesCreated,
                   listenersStarted, atexitRegistered, wiCalls, wiArg,
                   wiResult, configured, lastEmit>>
    /\ UNCHANGED <<svars, pvars, rvars>>

\* isInitialized = True               ... and written here, with no lock)
isl_set(p, t) ==
    /\ ipc[p][t] = "set"
    /\ isInitialized' = [isInitialized EXCEPT ![p] = TRUE]
    /\ ipc' = [ipc EXCEPT ![p][t] = "create"]
    /\ UNCHANGED <<global_log_queue, worker_log_config, rootHandlers,
                   dictCfg, iq, initCalls, initRaised, queuesCreated,
                   listenersStarted, atexitRegistered, wiCalls, wiArg,
                   wiResult, configured, lastEmit>>
    /\ UNCHANGED <<svars, pvars, rvars>>

\* safe_logger = SafeLogger(listener_config, worker_config)
\* safe_logger.start_listener()
\*   failAt = "Manager": multiprocessing.Manager() raises, nothing is created
\*   failAt = "start":   the queue exists, listener_process.start() raises
\* The listener-side variables follow the first listener that is started.
isl_start(p, t) ==
    /\ ipc[p][t] = "create"
    /\ \E failAt \in {"none", "Manager", "start"} :
         /\ queuesCreated' =
                IF failAt = "Manager" THEN queuesCreated
                ELSE queuesCreated + 1
         /\ IF failAt = "none"
            THEN /\ listenersStarted' = listenersStarted + 1
                 /\ atexitRegistered' = atexitRegistered + 1
                 /\ iq' = [iq EXCEPT ![p][t] = queuesCreated + 1]
                 /\ ipc' = [ipc EXCEPT ![p][t] = "globals"]
                 /\ initRaised' = initRaised
                 /\ IF lpc = "off"
                    THEN /\ lpc' = "init"
                         /\ log_config' \in
                                ListenerConfigs({0, DefaultIdleTimeout})
                    ELSE UNCHANGED <<lpc, log_config>>
            ELSE /\ ipc' = [ipc EXCEPT ![p][t] = "idle"]
                 /\ initRaised' = [initRaised EXCEPT ![p] = @ + 1]
                 /\ UNCHANGED <<listenersStarted, atexitRegistered, iq, lpc,
                                log_config>>
    /\ UNCHANGED <<isInitialized, global_log_queue, worker_log_config,
                   rootHandlers, dictCfg, initCalls, wiCalls, wiArg,
                   wiResult, configured, lastEmit>>
    /\ UNCHANGED <<now, queue, nextId, cur, shutdown_flag, last_log_time,
                   wpc, wakeAt, mpc, stopCalls, stopsReturned, handleCalls,
                   lastOut, lastWritten, errorsPrinted, sentinelsConsumed,
                   loopExits, stopRequested, preStop, lastConsumed>>
    /\ UNCHANGED <<pvars, rvars>>

\* set_global_log_queue(safe_logger.log_queue)
\* set_worker_log_config(worker_config)
\* safe_logger.get_logger():  dictConfig(self.worker_config)
\*                            rootlogger.addHandler(QueueHandler(log_queue))
isl_finish(p, t) ==
    /\ ipc[p][t] = "globals"
    /\ \E worker_config \in WorkerConfigs :
         LET r == dictConfig(worker_config, rootHandlers[p])
         IN  /\ global_log_queue' =
                    [global_log_queue EXCEPT ![p] = iq[p][t]]
             /\ worker_log_config' =
                    [worker_log_config EXCEPT ![p] = worker_config]
             /\ IF r.raised
                THEN /\ initRaised' = [initRaised EXCEPT ![p] = @ + 1]
                     /\ UNCHANGED <<rootHandlers, dictCfg, configured>>
                ELSE /\ rootHandlers' =
                         [rootHandlers EXCEPT
                             ![p] = Append(r.handlers, iq[p][t])]
                     /\ dictCfg' = [dictCfg EXCEPT ![p] = worker_config]
                     /\ configured' = [configured EXCEPT ![p] = TRUE]
                     /\ initRaised' = initRaised
    /\ ipc' = [ipc EXCEPT ![p][t] = "idle"]
    /\ iq' = [iq EXCEPT ![p][t] = None]
    /\ UNCHANGED <<isInitialized, initCalls, queuesCreated, listenersStarted,
                   atexitRegistered, wiCalls, wiArg, wiResult, lastEmit>>
    /\ UNCHANGED <<svars, pvars, rvars>>

(* --------------------- worker_process_initializer --------------------- *)
worker_process_initializer_SetsFirst(p, log_queue, worker_config) ==
    /\ wiCalls[p] < MaxWorkerInits
    /\ wiCalls' = [wiCalls EXCEPT ![p] = @ + 1]
    /\ wiArg' = [wiArg EXCEPT ![p] = log_queue]
    /\ worker_log_config' =
           [worker_log_config EXCEPT ![p] = worker_config]
    /\ global_log_queue' =
           [global_log_queue EXCEPT ![p] = log_queue]
    /\ IF log_queue = None
       THEN /\ wiResult' = [wiResult EXCEPT ![p] = "ValueError"]
            /\ UNCHANGED <<rootHandlers, dictCfg, configured>>
       ELSE LET r == dictConfig(worker_config, rootHandlers[p])
            IN  IF r.raised
                THEN /\ wiResult' = [wiResult EXCEPT ![p] = "ConfigError"]
                     /\ UNCHANGED <<rootHandlers, dictCfg, configured>>
                ELSE /\ wiResult' = [wiResult EXCEPT ![p] = "ok"]
                     /\ rootHandlers' =
                            [rootHandlers EXCEPT
                                ![p] = Append(r.handlers,
                                              log_queue)]
                     /\ dictCfg' =
                            [dictCfg EXCEPT ![p] = worker_config]
                     /\ configured' = [configured EXCEPT ![p] = TRUE]
    /\ UNCHANGED <<isInitialized, ipc, iq, initCalls, initRaised,
                   queuesCreated, listenersStarted, atexitRegistered,
                   lastEmit>>
    /\ UNCHANGED <<svars, rvars>>

\* if not global_log_queue: raise ValueError(...)
\* set_worker_log_config(...); set_global_log_queue(...)
\* dictConfig(worker_config)
\* root_logger.addHandler(QueueHandler(global_log_queue))
worker_process_initializer(p, log_queue, worker_config) ==
    /\ wiCalls[p] < MaxWorkerInits
    /\ wiCalls' = [wiCalls EXCEPT ![p] = @ + 1]
    /\ wiArg' = [wiArg EXCEPT ![p] = log_queue]
    /\ IF log_queue = None
       THEN /\ wiResult' = [wiResult EXCEPT ![p] = "ValueError"]
            /\ UNCHANGED <<worker_log_config, global_log_queue,
                           rootHandlers, dictCfg, configured>>
       ELSE LET r == dictConfig(worker_config, rootHandlers[p])
            IN  /\ worker_log_config' =
                       [worker_log_config EXCEPT ![p] = worker_config]
                /\ global_log_queue' =
                       [global_log_queue EXCEPT ![p] = log_queue]
                /\ IF r.raised
                   THEN /\ wiResult' =
                               [wiResult EXCEPT ![p] = "ConfigError"]
                        /\ UNCHANGED <<rootHandlers, dictCfg, configured>>
                   ELSE /\ wiResult' = [wiResult EXCEPT ![p] = "ok"]
                        /\ rootHandlers' =
                               [rootHandlers EXCEPT
                                   ![p] = Append(r.handlers,
                                                 log_queue)]
                        /\ dictCfg' =
                               [dictCfg EXCEPT ![p] = worker_config]
                        /\ configured' = [configured EXCEPT ![p] = TRUE]
    /\ UNCHANGED <<isInitialized, ipc, iq, initCalls, initRaised,
                   queuesCreated, listenersStarted, atexitRegistered,
                   lastEmit>>
    /\ UNCHANGED <<svars, rvars>>

\* one log call on the root logger of process p: Logger.callHandlers runs
\* QueueHandler.emit once per attached QueueHandler, each puts one record
log(p) ==
    /\ lastEmit' = [lastEmit EXCEPT ![p] = Len(rootHandlers[p])]
    /\ UNCHANGED <<isInitialized, global_log_queue, worker_log_config,
                   rootHandlers, dictCfg, ipc, iq, initCalls, initRaised,
                   queuesCreated, listenersStarted, atexitRegistered,
                   wiCalls, wiArg, wiResult, configured>>
    /\ UNCHANGED <<svars, pvars, rvars>>

(* --------------- SafeProcess, Pool, ProcessPoolExecutor --------------- *)
\* elements of an argument tuple: plain values, the queue proxy, the worker
\* configuration, callables, and Python's None
Val(n) == [k |-> "value", q |-> n, c |-> ""]
QueueArg(q) == [k |-> "queue", q |-> q, c |-> ""]
ConfigArg(c) == [k |-> "config", q |-> None, c |-> c]
Fn(name) == [k |-> "callable", q |-> None, c |-> name]
NoCallable == [k |-> "None", q |-> None, c |-> ""]
callable(e) == e.k = "callable"

\* argument tuples a caller passes for its own target or initializer
UserValues == {Val(1), Val(2)}
UserArgs == UNION {[1..n -> UserValues] : n \in 0..MaxUserArgs}

\* tuple(list(args) + [original, _global_log_queue, _worker_log_config,
\*                     worker_process_initializer]),
\* or the four-element tuple alone when the caller gave no argument tuple
wrap_args(hasArgs, args, original, q, c) ==
    (IF hasArgs THEN args ELSE <<>>) \o
        <<original, QueueArg(q), ConfigArg(c),
          Fn("worker_process_initializer")>>

\* SafeProcess.__init__(*args, **kwargs) in the root process, for worker p.
\* Only a target passed by keyword is wrapped; the module globals are read
\* as they are, set or not.
SafeProcess_init(p, targetInKwargs, argsInKwargs, args, kw) ==
    /\ pst[p] = "none"
    /\ (targetInKwargs /\ ~argsInKwargs) => args = <<>>
    /\ LET q == global_log_queue["MainProcess"]
           c == worker_log_config["MainProcess"]
       IN  /\ IF targetInKwargs
              THEN /\ ptarget' = [ptarget EXCEPT
                                     ![p] = Fn("combined_initializer")]
                   /\ pargs' = [pargs EXCEPT
                                   ![p] = wrap_args(argsInKwargs, args,
                                                    Fn("target"), q, c)]
              ELSE /\ ptarget' = [ptarget EXCEPT ![p] = Fn("target")]
                   /\ pargs' = [pargs EXCEPT ![p] = args]
           /\ pinit' = [pinit EXCEPT ![p] = q # None /\ c # "unset"]
    /\ pkwargs' = [pkwargs EXCEPT ![p] = kw]
    /\ pkind' = [pkind EXCEPT ![p] = "Process"]
    /\ pst' = [pst EXCEPT ![p] = "created"]
    /\ uhas' = [uhas EXCEPT ![p] = TRUE]
    /\ uargs' = [uargs EXCEPT ![p] = args]
    /\ UNCHANGED <<ucalls, ugot, usetup>>
    /\ UNCHANGED <<svars, fvars, rvars>>

\* the initargs both pool hooks build
pool_initargs(initializerInKwargs, original, initargsInKwargs, initargs, q, c) ==
    IF initializerInKwargs
    THEN wrap_args(initargsInKwargs, initargs, original, q, c)
    ELSE <<QueueArg(q), ConfigArg(c), Fn("worker_process_initializer")>>

\* a pool worker p set up by one of the two pool hooks
pool_worker(p, initializerInKwargs, original, initargsInKwargs, initargs) ==
    /\ pst[p] = "none"
    /\ ~initargsInKwargs => initargs = <<>>
    /\ ~initializerInKwargs => original = NoCallable
    /\ LET q == global_log_queue["MainProcess"]
           c == worker_log_config["MainProcess"]
       IN  /\ pargs' = [pargs EXCEPT
                           ![p] = pool_initargs(initializerInKwargs,
                                                original, initargsInKwargs,
                                                initargs, q, c)]
           /\ pinit' = [pinit EXCEPT ![p] = q # None /\ c # "unset"]
    /\ ptarget' = [ptarget EXCEPT ![p] = Fn("combined_initializer")]
    /\ pkwargs' = [pkwargs EXCEPT ![p] = FALSE]
    /\ pst' = [pst EXCEPT ![p] = "created"]
    /\ uhas' = [uhas EXCEPT ![p] = callable(original)]
    /\ uargs' = [uargs EXCEPT
                    ![p] = IF initializerInKwargs THEN initargs ELSE <<>>]
    /\ UNCHANGED <<ucalls, ugot, usetup>>
    /\ UNCHANGED <<svars, fvars, rvars>>

\* multiprocessing.Pool(*args, **kwargs)
safe_logging_pool(p, initializerInKwargs, original, initargsInKwargs, initargs) ==
    /\ pkind' = [pkind EXCEPT ![p] = "Pool"]
    /\ pool_worker(p, initializerInKwargs, original, initargsInKwargs,
                   initargs)

\* ProcessPoolExecutor(*args, **kwargs)
patched_process_executor_init(p, initializerInKwargs, original, initargsInKwargs, initargs) ==
    /\ pkind' = [pkind EXCEPT ![p] = "Executor"]
    /\ pool_worker(p, initializerInKwargs, original, initargsInKwargs,
                   initargs)

\* combined_initializer(*args): the last three arguments, taken when the
\* last one is callable (a tuple shorter than three raises IndexError)
ci_head(args) ==
    LET n == Len(args)
    IN  IF n > 0 /\ callable(args[n])
        THEN IF n >= 3
             THEN [err |-> FALSE, wpi |-> args[n], config |-> args[n - 1],
                   queue |-> args[n - 2]]
             ELSE [err |-> TRUE, wpi |-> args[n], config |-> NoCallable,
                   queue |-> NoCallable]
        ELSE [err |-> FALSE, wpi |-> NoCallable, config |-> NoCallable,
              queue |-> NoCallable]

\* args = args[:-3]; a callable last element is the original target and
\* what precedes it are its arguments
ci_target(args) ==
    LET rest == SubSeq(args, 1, Len(args) - 3)
        m == Len(rest)
    IN  IF m > 0 /\ callable(rest[m])
        THEN [has |-> TRUE, target |-> rest[m],
              args |-> SubSeq(rest, 1, m - 1)]
        ELSE [has |-> FALSE, target |-> NoCallable, args |-> <<>>]

\* the new process p calls its entry point:
\*   Process.run:      self._target(*self._args, **self._kwargs)
\*   pool worker:      initializer(*initargs)
\* combined_initializer(*args) accepts no keyword argument, so a wrapped
\* target with keyword arguments ends in a TypeError before anything ran.
Process_run(p) ==
    /\ pst[p] = "created"
    /\ IF ptarget[p] = Fn("combined_initializer")
       THEN LET h == ci_head(pargs[p])
                t == ci_target(pargs[p])
            IN  IF pkwargs[p] \/ h.err
                      \/ h.wpi # Fn("worker_process_initializer")
                THEN /\ pst' = [pst EXCEPT ![p] = "raised"]
                     /\ UNCHANGED <<ucalls, ugot, usetup>>
                     /\ UNCHANGED <<svars, fvars, rvars>>
                ELSE /\ worker_process_initializer(p, h.queue.q, h.config.c)
                     /\ IF wiResult'[p] # "ok"
                        THEN /\ pst' = [pst EXCEPT ![p] = "raised"]
                             /\ UNCHANGED <<ucalls, ugot, usetup>>
                        ELSE /\ pst' = [pst EXCEPT ![p] = "returned"]
                             /\ IF t.has
                                THEN /\ ucalls' =
                                            [ucalls EXCEPT ![p] = @ + 1]
                                     /\ ugot' = [ugot EXCEPT ![p] = t.args]
                                     /\ usetup' =
                                            [usetup EXCEPT
                                                ![p] = wiArg'[p] =
                                                  global_log_queue[
                                                      "MainProcess"]]
                                ELSE UNCHANGED <<ucalls, ugot, usetup>>
       ELSE /\ pst' = [pst EXCEPT ![p] = "returned"]
            /\ ucalls' = [ucalls EXCEPT ![p] = @ + 1]
            /\ ugot' = [ugot EXCEPT ![p] = pargs[p]]
            /\ usetup' = [usetup EXCEPT
                             ![p] = /\ wiResult[p] = "ok"
                                    /\ wiArg[p] =
                                           global_log_queue["MainProcess"]]
            /\ UNCHANGED <<svars, fvars, rvars>>
    /\ UNCHANGED <<pkind, ptarget, pargs, pkwargs, uhas, uargs, pinit>>

\* no spawn request has been made
SpawnNone ==
    /\ pst = [p \in Workers |-> "none"]
    /\ pkind = [p \in Workers |-> "none"]
    /\ ptarget = [p \in Workers |-> NoCallable]
    /\ pargs = [p \in Workers |-> <<>>]
    /\ pkwargs = [p \in Workers |-> FALSE]
    /\ uhas = [p \in Workers |-> FALSE]
    /\ uargs = [p \in Workers |-> <<>>]
    /\ pinit = [p \in Workers |-> FALSE]
    /\ ucalls = [p \in Workers |-> 0]
    /\ ugot = [p \in Workers |-> <<>>]
    /\ usetup = [p \in Workers |-> FALSE]

(* ------------------ logger.handle across the hierarchy ---------------- *)
\* A logger name is the sequence of its dot-separated components; the root
\* logger is the empty sequence.  record.name ranges over LoggerNames.
Components == {"a", "b", "c"}
LoggerNames == UNION {[1..n -> Components] : n \in 0..MaxDepth}

\* 'loggers' entries of the listener configuration next to 'root':
\*   'a'   -> handlers [sinkX]        'a.b' -> handlers [sinkY]
\* each with its 'propagate' setting (True unless configured otherwise)
ConfiguredLoggers == {<<"a">>, <<"a", "b">>}
LoggerHandlers(n) ==
    IF n = <<>> THEN Handlers
    ELSE IF n = <<"a">> THEN <<"sinkX">>
    ELSE IF n = <<"a", "b">> THEN <<"sinkY">>
    ELSE <<>>
Sinks == HandlerSet \cup {"sinkX", "sinkY"}
propagate(cfg, n) == IF n \in ConfiguredLoggers THEN cfg[n] ELSE TRUE
\* Logger.parent: the name without its last component
parent(n) == SubSeq(n, 1, Len(n) - 1)

\* the handlers of one logger that get called: all up to and including the
\* first one that raises
RECURSIVE called(_, _)
called(hs, out) ==
    IF hs = <<>> THEN <<>>
    ELSE IF out[Head(hs)] = "raise" THEN <<Head(hs)>>
    ELSE <<Head(hs)>> \o called(Tail(hs), out)

\* the longest-prefix rule alone: the walk ends at the first logger that
\* has handlers of its own
RECURSIVE Logger_callHandlers_FirstOnly(_, _, _)
Logger_callHandlers_FirstOnly(n, cfg, out) ==
    LET hs == LoggerHandlers(n)
    IN  IF hs # <<>> \/ n = <<>> \/ ~propagate(cfg, n)
        THEN [tried |-> called(hs, out),
              raised |-> callHandlers(hs, out).raised]
        ELSE Logger_callHandlers_FirstOnly(parent(n), cfg, out)

\* logging.Logger.callHandlers:
\*   c = self
\*   while c:
\*       for hdlr in c.handlers: hdlr.handle(record)
\*       if not c.propagate: c = None
\*       else: c = c.parent
RECURSIVE Logger_callHandlers(_, _, _)
Logger_callHandlers(n, cfg, out) ==
    LET hs == LoggerHandlers(n)
        r == callHandlers(hs, out)
    IN  IF r.raised \/ n = <<>> \/ ~propagate(cfg, n)
        THEN [tried |-> called(hs, out), raised |-> r.raised]
        ELSE LET up == Logger_callHandlers(parent(n), cfg, out)
             IN  [tried |-> called(hs, out) \o up.tried,
                  raised |-> up.raised]

\* logger = logging.getLogger(record.name); logger.handle(record)
Logger_handle ==
    /\ rpc = "idle"
    /\ LET r == Logger_callHandlers(rname, rcfg, rout)
       IN  /\ rtried' = r.tried
           /\ rraised' = r.raised
    /\ rpc' = "done"
    /\ UNCHANGED <<rname, rcfg, rout>>
    /\ UNCHANGED <<svars, fvars, pvars>>

\* no record is being routed by name
RouteIdle ==
    /\ rname = <<>>
    /\ rcfg = [n \in ConfiguredLoggers |-> TRUE]
    /\ rout = [s \in Sinks |-> "ok"]
    /\ rtried = <<>>
    /\ rraised = FALSE
    /\ rpc = "idle"

(* --------------------------- specifications --------------------------- *)
\* nothing initialized yet, in any process
FrontFresh ==
    /\ isInitialized = [p \in Procs |-> FALSE]
    /\ global_log_queue = [p \in Procs |-> None]
    /\ worker_log_config = [p \in Procs |-> "unset"]
    /\ rootHandlers = [p \in Procs |-> <<>>]
    /\ dictCfg = [p \in Procs |-> "unset"]
    /\ ipc = [p \in Procs |-> [t \in Threads |-> "idle"]]
    /\ iq = [p \in Procs |-> [t \in Threads |-> None]]
    /\ initCalls = [p \in Procs |-> 0]
    /\ initRaised = [p \in Procs |-> 0]
    /\ queuesCreated = 0
    /\ listenersStarted = 0
    /\ atexitRegistered = 0
    /\ wiCalls = [p \in Procs |-> 0]
    /\ wiArg = [p \in Procs |-> None]
    /\ wiResult = [p \in Procs |-> "none"]
    /\ configured = [p \in Procs |-> FALSE]
    /\ lastEmit = [p \in Procs |-> 0]

\* the root process has run initialize_safe_logging() once, with the
\* default worker configuration
FrontInitialized ==
    /\ isInitialized = [p \in Procs |-> p = "MainProcess"]
    /\ global_log_queue =
           [p \in Procs |-> IF p = "MainProcess" THEN 1 ELSE None]
    /\ worker_log_config =
           [p \in Procs |-> IF p = "MainProcess" THEN "default" ELSE "unset"]
    /\ rootHandlers =
           [p \in Procs |-> IF p = "MainProcess" THEN <<1>> ELSE <<>>]
    /\ dictCfg =
           [p \in Procs |-> IF p = "MainProcess" THEN "default" ELSE "unset"]
    /\ ipc = [p \in Procs |-> [t \in Threads |-> "idle"]]
    /\ iq = [p \in Procs |-> [t \in Threads |-> None]]
    /\ initCalls = [p \in Procs |-> IF p = "MainProcess" THEN 1 ELSE 0]
    /\ initRaised = [p \in Procs |-> 0]
    /\ queuesCreated = 1
    /\ listenersStarted = 1
    /\ atexitRegistered = 1
    /\ wiCalls = [p \in Procs |-> 0]
    /\ wiArg = [p \in Procs |-> None]
    /\ wiResult = [p \in Procs |-> "none"]
    /\ configured = [p \in Procs |-> p = "MainProcess"]
    /\ lastEmit = [p \in Procs |-> 0]

\* the state right after SafeLogger.start_listener() has started the
\* listener process: _run_listener is about to build the ListenerProcess
InitWith(timeouts) ==
    /\ FrontInitialized
    /\ SpawnNone
    /\ now = 0
    /\ queue = <<>>
    /\ nextId = 1
    /\ log_config \in ListenerConfigs(timeouts)
    /\ lpc = "init"
    /\ cur = None
    /\ shutdown_flag = FALSE
    /\ last_log_time = 0
    /\ wpc = "off"
    /\ wakeAt = 0
    /\ mpc = "idle"
    /\ stopCalls = 0
    /\ stopsReturned = 0
    /\ handleCalls = [r \in Records |-> 0]
    /\ lastOut = [h \in HandlerSet |-> "ok"]
    /\ lastWritten = {}
    /\ errorsPrinted = 0
    /\ sentinelsConsumed = 0
    /\ loopExits = 0
    /\ stopRequested = FALSE
    /\ preStop = {}
    /\ lastConsumed = 0

Init == InitWith({0, DefaultIdleTimeout}) /\ RouteIdle

ListenerStep ==
    \/ ListenerProcess_init
    \/ run_while
    \/ run_get
    \/ run_empty
    \/ run_handle

WatchdogStep ==
    \/ watchdog_while
    \/ watchdog_wake
    \/ stop_put

Next ==
    \/ ListenerProcess_init
    \/ run_while
    \/ run_get
    \/ run_empty
    \/ run_handle
    \/ watchdog_while
    \/ watchdog_wake
    \/ stop_put
    \/ stop_listener_put
    \/ stop_listener_join
    \/ emit(MaxRecords)
    \/ Advance(WatchdogSleep, MaxTime)

Spec == Init /\ [][Next]_vars

\* every runnable process and thread is eventually scheduled; the root
\* process is not obliged to ever call stop_listener, nor producers to emit
FairSpec ==
    /\ Spec
    /\ WF_vars(ListenerStep)
    /\ WF_vars(WatchdogStep)
    /\ WF_vars(stop_listener_join)

\* the listener service under a unit clock, left to the watchdog alone
InitTimed == InitWith({0, 7, WatchdogSleep}) /\ RouteIdle

NextTimed ==
    \/ ListenerProcess_init
    \/ run_while
    \/ run_get
    \/ run_empty
    \/ run_handle
    \/ watchdog_while
    \/ watchdog_wake
    \/ stop_put
    \/ emit(MaxTimedRecords)
    \/ Advance(1, MaxTimedTime)

SpecTimed == InitTimed /\ [][NextTimed]_vars

\* the producers' side, from a root process that has not initialized yet
InitFront ==
    /\ FrontFresh
    /\ SpawnNone
    /\ RouteIdle
    /\ now = 0
    /\ queue = <<>>
    /\ nextId = 1
    /\ log_config = [valid |-> TRUE, idle_timeout |-> DefaultIdleTimeout]
    /\ lpc = "off"
    /\ cur = None
    /\ shutdown_flag = FALSE
    /\ last_log_time = 0
    /\ wpc = "off"
    /\ wakeAt = 0
    /\ mpc = "idle"
    /\ stopCalls = 0
    /\ stopsReturned = 0
    /\ handleCalls = [r \in Records |-> 0]
    /\ lastOut = [h \in HandlerSet |-> "ok"]
    /\ lastWritten = {}
    /\ errorsPrinted = 0
    /\ sentinelsConsumed = 0
    /\ loopExits = 0
    /\ stopRequested = FALSE
    /\ preStop = {}
    /\ lastConsumed = 0

NextFront ==
    \/ \E p \in Procs, t \in Threads : isl_check(p, t)
    \/ \E p \in Procs, t \in Threads : isl_set(p, t)
    \/ \E p \in Procs, t \in Threads : isl_start(p, t)
    \/ \E p \in Procs, t \in Threads : isl_finish(p, t)
    \/ \E p \in Workers, c \in WorkerConfigs,
            q \in {None, global_log_queue["MainProcess"]} :
           worker_process_initializer(p, q, c) /\ UNCHANGED pvars
    \/ \E p \in Procs : log(p)

SpecFront == InitFront /\ [][NextFront]_vars

\* initialize_safe_logging in the root process together with the listener
\* process it starts, up to the end of ListenerProcess.__init__
NextStart ==
    \/ \E t \in Threads : isl_check("MainProcess", t)
    \/ \E t \in Threads : isl_set("MainProcess", t)
    \/ \E t \in Threads : isl_start("MainProcess", t)
    \/ \E t \in Threads : isl_finish("MainProcess", t)
    \/ ListenerProcess_init

SpecStart == InitFront /\ [][NextStart]_vars

\* the root process has either never called initialize_safe_logging or has
\* completed one call; it then creates a worker through one of the hooks
InitSpawn == InitFront \/ Init

NextSpawn ==
    \/ \E p \in Workers, targetInKwargs, argsInKwargs, kw \in BOOLEAN,
            args \in UserArgs :
           SafeProcess_init(p, targetInKwargs, argsInKwargs, args, kw)
    \/ \E p \in Workers, initializerInKwargs, initargsInKwargs \in BOOLEAN,
            original \in {Fn("target"), NoCallable}, initargs \in UserArgs :
           safe_logging_pool(p, initializerInKwargs, original,
                             initargsInKwargs, initargs)
    \/ \E p \in Workers, initializerInKwargs, initargsInKwargs \in BOOLEAN,
            original \in {Fn("target"), NoCallable}, initargs \in UserArgs :
           patched_process_executor_init(p, initializerInKwargs, original,
                                         initargsInKwargs, initargs)
    \/ \E p \in Workers : Process_run(p)
    \/ \E p \in Workers : log(p)

SpecSpawn == InitSpawn /\ [][NextSpawn]_vars

\* one record, of any name, handed to logger.handle in the listener
InitRoute ==
    /\ InitWith({DefaultIdleTimeout})
    /\ log_config.valid
    /\ rname \in LoggerNames
    /\ rcfg \in [ConfiguredLoggers -> BOOLEAN]
    /\ rout \in [Sinks -> SinkOutcomes]
    /\ rtried = <<>>
    /\ rraised = FALSE
    /\ rpc = "idle"

NextRoute == Logger_handle

SpecRoute == InitRoute /\ [][NextRoute]_vars

(* ------------------------------- claims ------------------------------- *)
Running == lpc \in {"while", "get", "handle"}

\* C1: every record enqueued before the first stop request has been passed
\* to logger.handle exactly once by the time the run loop has ended, and no
\* record is ever passed twice.
C1_RoutedExactlyOnce ==
    /\ \A r \in Records : handleCalls[r] <= 1
    /\ lpc = "exited" => \A r \in preStop : handleCalls[r] = 1

\* C2: once run() has dequeued the sentinel no record is routed any more,
\* and a run loop that has been left stays left.
C2_NoRoutingAfterSentinel ==
    [][(sentinelsConsumed >= 1 \/ lpc = "exited")
         => /\ lpc' = "exited"
            /\ handleCalls' = handleCalls
            /\ lastWritten' = lastWritten]_vars

C2_Witness ==
    /\ sentinelsConsumed = 1
    /\ lpc = "exited"
    /\ \E i \in 1..Len(queue) : queue[i] # None

\* C3: however many stop requests are made, by stop_listener and by the
\* watchdog's stop(), the run loop is left exactly once, at most one
\* sentinel is ever dequeued (the others stay unread), a requested stop of
\* a running listener ends with the listener stopped, and every
\* stop_listener call returns.
C3_OneDrain ==
    /\ sentinelsConsumed <= 1
    /\ loopExits <= 1
    /\ (lpc = "exited") <=> (loopExits = 1)

C3_StopIdempotent ==
    /\ []C3_OneDrain
    /\ (stopRequested /\ Running) ~> (lpc = "exited" /\ loopExits = 1)
    /\ (mpc = "join") ~> (mpc = "idle" /\ ListenerGone)

C3_Witness ==
    /\ stopCalls = 2
    /\ stopsReturned = 2
    /\ wpc = "done"
    /\ shutdown_flag
    /\ lpc = "exited"
    /\ Len(queue) >= 2

\* C4: left to the watchdog alone, a listener is never still running more
\* than idle_timeout plus one watchdog sleep after it last consumed a record
\* (or was started).
C4_IdleStopWithinCadence ==
    (Running /\ stopCalls = 0)
        => now - lastConsumed <= log_config.idle_timeout + WatchdogSleep

C4_Witness ==
    /\ lpc = "exited"
    /\ stopCalls = 0
    /\ shutdown_flag
    /\ handleCalls[1] = 1
    /\ lastConsumed > 0
    /\ now - lastConsumed = log_config.idle_timeout + WatchdogSleep

\* C5: whatever the number of initialize_safe_logging calls and threads, one
\* queue is created, one listener process started and one teardown
\* registered.
C5_SetupOnce ==
    /\ queuesCreated <= 1
    /\ listenersStarted <= 1
    /\ atexitRegistered <= 1

\* C6: once the worker-side setup has completed in a process, its root
\* logger carries exactly one forwarding QueueHandler and a log call puts
\* at most one record on the queue.
C6_OneForwardingHandler ==
    \A p \in Procs :
        configured[p] => (Len(rootHandlers[p]) = 1 /\ lastEmit[p] <= 1)

\* C7: a worker_process_initializer call without a queue raises ValueError
\* and leaves the process's globals, logging configuration and root
\* handlers as they were.
C7_MissingQueueRejected ==
    [][\A p \in Procs :
          (wiCalls'[p] # wiCalls[p] /\ wiArg'[p] = None)
              => /\ wiResult'[p] = "ValueError"
                 /\ global_log_queue'[p] = global_log_queue[p]
                 /\ worker_log_config'[p] = worker_log_config[p]
                 /\ dictCfg'[p] = dictCfg[p]
                 /\ rootHandlers'[p] = rootHandlers[p]]_vars

C7_Witness ==
    \E p \in Procs :
        /\ wiCalls[p] = 2
        /\ wiArg[p] = None
        /\ wiResult[p] = "ValueError"
        /\ global_log_queue[p] # None
        /\ worker_log_config[p] = "default"
        /\ Len(rootHandlers[p]) = 1

\* C8: an exception raised while routing a record is caught in the loop:
\* run() goes on to its next iteration, and every record taken off the
\* queue is passed to logger.handle.
C8_ErrorIsolated ==
    /\ [][errorsPrinted' # errorsPrinted
            => /\ lpc' = "while"
               /\ queue' = queue
               /\ mpc' = mpc]_vars
    /\ [](\A r \in Enqueued \ InQueue : r = cur \/ handleCalls[r] = 1)
    /\ [](lpc = "failed" => ~log_config.valid)

C8_Witness ==
    /\ errorsPrinted = 1
    /\ handleCalls[1] = 1
    /\ handleCalls[2] = 1
    /\ \A h \in HandlerSet : lastOut[h] = "ok"
    /\ lastWritten = HandlerSet

\* C9: a record is written to every sink that can take it, also when
\* another sink of the same logger raised for that record.
C9_OtherSinksServed ==
    \A h \in HandlerSet :
        ((\E r \in Records : handleCalls[r] > 0) /\ lastOut[h] = "ok")
            => h \in lastWritten

\* C10: stop_listener returns only once the listener process is gone, and
\* every stop_listener call that is begun returns.
C10_StopListenerReturns ==
    /\ [][stopsReturned' # stopsReturned => ListenerGone]_vars
    /\ \A n \in 1..MaxStopCalls : (stopCalls = n) ~> (stopsReturned = n)

C10_Witness ==
    /\ stopsReturned = 1
    /\ lpc = "exited"
    /\ sentinelsConsumed = 0
    /\ wpc = "put"

\* C11: a listener whose configuration dictConfig rejects never runs: it
\* takes nothing off the queue, routes nothing, and has no watchdog.
C11_FailedConfigNeverRuns ==
    ~log_config.valid
        => /\ lpc \in {"init", "failed"}
           /\ wpc = "off"
           /\ \A r \in Records : handleCalls[r] = 0
           /\ Enqueued \subseteq InQueue
           /\ cur = None
           /\ sentinelsConsumed = 0

C11_Witness ==
    /\ lpc = "failed"
    /\ ~log_config.valid
    /\ Len(queue) >= 2
    /\ now > 0

\* C12: when the listener's configuration is rejected, the
\* initialize_safe_logging call that started that listener does not return
\* normally: once the listener has failed and the call is over, the call has
\* raised.
C12_StartFailureSurfaced ==
    (/\ lpc = "failed"
     /\ listenersStarted = 1
     /\ \A t \in Threads : ipc["MainProcess"][t] = "idle")
        => initRaised["MainProcess"] > 0

\* C16: last_log_time is set to the current time for every record run()
\* passes to logger.handle, whatever the outcome, and an idle poll
\* (queue.Empty) leaves it as it was.
C16_ActivityTimestamp ==
    [][/\ handleCalls' # handleCalls => last_log_time' = now'
       /\ (lpc = "get" /\ lpc' = "while") => last_log_time' = last_log_time
      ]_vars

C18_FifoRouting ==
    \A r1 \in Records, r2 \in Records :
        (r1 < r2 /\ (handleCalls[r2] > 0 \/ cur = r2))
            => (handleCalls[r1] = 1 /\ cur # r1)

C18_Witness ==
    /\ handleCalls[1] = 1
    /\ cur = 2
    /\ 3 \in InQueue

\* C19: a process tree has at most one queue and one listener, and
\* initialize_safe_logging in a process other than the main process returns
\* at once: it creates nothing and leaves that process's globals alone.
C19_NonMainNoOp ==
    /\ [](\A p \in Workers, t \in Threads : ipc[p][t] = "idle")
    /\ [][\A p \in Workers :
            initCalls'[p] # initCalls[p]
                => /\ queuesCreated' = queuesCreated
                   /\ listenersStarted' = listenersStarted
                   /\ atexitRegistered' = atexitRegistered
                   /\ isInitialized'[p] = isInitialized[p]
                   /\ global_log_queue'[p] = global_log_queue[p]
                   /\ worker_log_config'[p] = worker_log_config[p]]_vars

C19_OneListenerPerTree ==
    /\ [](queuesCreated <= 1 /\ listenersStarted <= 1)
    /\ C19_NonMainNoOp

\* C20: in the main process, when the flag is set and no
\* initialize_safe_logging call is under way, the queue and worker
\* configuration globals are set.
C20_FlagImpliesGlobals ==
    (/\ isInitialized["MainProcess"]
     /\ \A t \in Threads : ipc["MainProcess"][t] = "idle")
        => /\ global_log_queue["MainProcess"] # None
           /\ worker_log_config["MainProcess"] # "unset"

\* C13: in every worker created after initialization through SafeProcess,
\* Pool or ProcessPoolExecutor, once its entry call has ended,
\* worker_process_initializer has run with the parent's queue, and the
\* caller's own target or initializer (if any) was invoked exactly once,
\* with its original arguments, after that setup had completed.
C13_SetupBeforeUserCode ==
    \A p \in Workers :
        (pst[p] \in {"returned", "raised"} /\ pinit[p]) =>
            /\ wiCalls[p] >= 1
            /\ wiResult[p] = "ok"
            /\ wiArg[p] = global_log_queue["MainProcess"]
            /\ uhas[p] => /\ ucalls[p] = 1
                          /\ ugot[p] = uargs[p]
                          /\ usetup[p]

\* C14: a spawning call made while the root process has no queue and no
\* worker configuration creates no worker: no process object or pool
\* exists that was built from the unset globals.
C14_UnsetQueueRejected ==
    \A p \in Workers : pst[p] # "none" => pinit[p]

\* logger names as prefixes of each other
Prefix(m, n) == Len(m) <= Len(n) /\ SubSeq(n, 1, Len(m)) = m
\* the logger a sink is configured on
Owner(s) ==
    IF s \in HandlerSet THEN <<>>
    ELSE IF s = "sinkX" THEN <<"a">>
    ELSE <<"a", "b">>
\* the most specific configured logger name that is a prefix of n (root
\* when there is none)
LongestPrefix(n) ==
    LET cand == {m \in ConfiguredLoggers \cup {<<>>} : Prefix(m, n)}
    IN  CHOOSE m \in cand : \A m2 \in cand : Len(m2) <= Len(m)
TriedSet == {rtried[i] : i \in 1..Len(rtried)}

====
